---- MODULE Spec2Model ----
(***************************************************************************)
(* Model of environments/lcls/fel/observables.py: the two observable       *)
(* samplers get_intensity_and_loss and get_loss, step by step (rate query, *)
(* sleep, data fetch with filter and reduce, scalar fallback), against an  *)
(* interface whose calls may return or raise, and the naming predicate     *)
(* is_pulse_intensity_observed.                                            *)
(*                                                                         *)
(* Floating-point values are modelled exactly: a float is a record         *)
(*   [nan, root, num, den]  standing for NaN when nan, for num/den when    *)
(* ~root and for sqrt(num/den) when root (only np.std produces a root).    *)
(* Channel names are sequences of string pieces, so that the f-string of   *)
(* line 67 is a concatenation.  Characters of observable names are one     *)
(* letter strings.                                                         *)
(***************************************************************************)
EXTENDS Integers, Sequences, FiniteSets, TLC

\* ------------------------------------------------------------------ bounds
MaxLen == 2        \* longest series the interface returns
MaxNames == 2      \* longest collection of observable names

\* ------------------------------------------------------------------ floats
Abs(n) == IF n < 0 THEN -n ELSE n

RECURSIVE Gcd(_, _)
Gcd(a, b) == IF b = 0 THEN a ELSE Gcd(b, a % b)

NaN == [nan |-> TRUE, root |-> FALSE, num |-> 0, den |-> 1]

\* the float n/d, d # 0, in lowest terms
Q(n, d) ==
    LET s == IF d < 0 THEN -1 ELSE 1
        g == Gcd(Abs(n), Abs(d))
    IN  IF n = 0 THEN [nan |-> FALSE, root |-> FALSE, num |-> 0, den |-> 1]
        ELSE [nan |-> FALSE, root |-> FALSE, num |-> (s * n) \div g, den |-> Abs(d) \div g]

F(n) == Q(n, 1)

\* the float sqrt(q) for a float q >= 0 that is no root
Root(q) == IF q.num = 0 THEN q ELSE [q EXCEPT !.root = TRUE]

isnan(x) == x.nan

\* ------------------------------------------------------------------ channel names
BEAMRATE == <<"EVNT:SYS0:1:LCLSBEAMRATE">>
SXR_HST == <<"EM1K0:GMD:HPS:milliJoulesPerPulseHSTCUSBR">>
SXR_SCALAR == <<"EM1K0:GMD:HPS:milliJoulesPerPulse">>
HxrTemplate(fel_ch) == <<"GDET:FEE1:", fel_ch, ":ENRCHSTCUHBR">>

\* if hxr: PV_gas = f"GDET:FEE1:{fel_channel}:ENRCHSTCUHBR" else the SXR name
PV_gas_always_hxr(is_hxr, fel_ch) == HxrTemplate(fel_ch)
PV_gas(is_hxr, fel_ch) == IF is_hxr THEN HxrTemplate(fel_ch) ELSE SXR_HST

\* ------------------------------------------------------------------ inputs
FelChannels == {"241", "361"}
LossPvs == {<<"CBLM:UNDH:1375:I1_LOSSHSTCUHBR">>}
PointsSet == -2 .. MaxLen + 1
RateValues == {-1, 0, 2}
SampleValues == {NaN, F(1), F(2)}
ScalarValues == {F(5)}

RECURSIVE SeqsUpTo(_, _)
SeqsUpTo(S, n) ==
    IF n = 0 THEN {<<>>}
    ELSE LET shorter == SeqsUpTo(S, n - 1)
         IN  shorter \cup {Append(s, x) : s \in {t \in shorter : Len(t) = n - 1}, x \in S}

Series == SeqsUpTo(SampleValues, MaxLen)

\* the series used where the two buffers differ in length
ShapeSeries == SeqsUpTo({NaN, F(1)}, MaxLen)

\* ------------------------------------------------------------------ numpy
\* a[-points:]: Python's slice with start -points and no stop.  A negative
\* start counts from the end and is clamped to 0; a start >= 0 (points <= 0)
\* counts from the front and is clamped to len(a).
SliceStart(len, n) ==
    LET start == -n
    IN  IF start < 0
        THEN (IF start + len < 0 THEN 0 ELSE start + len)
        ELSE (IF start > len THEN len ELSE start)

LastN(a, n) == SubSeq(a, SliceStart(Len(a), n) + 1, Len(a))

\* numpy broadcasting of two one-dimensional shapes
CanBroadcast(m, n) == m = n \/ m = 1 \/ n = 1
BroadcastLen(m, n) == IF m = 1 THEN n ELSE m
At(a, i) == IF Len(a) = 1 THEN a[1] ELSE a[i]

\* ind_valid = ~np.logical_or(np.isnan(intensity_raw), np.isnan(loss_raw))
IndValidNotAnd(intensity_raw, loss_raw) ==
    [i \in 1 .. BroadcastLen(Len(intensity_raw), Len(loss_raw)) |->
        ~(isnan(At(intensity_raw, i)) /\ isnan(At(loss_raw, i)))]
IndValid(intensity_raw, loss_raw) ==
    [i \in 1 .. BroadcastLen(Len(intensity_raw), Len(loss_raw)) |->
        ~(isnan(At(intensity_raw, i)) \/ isnan(At(loss_raw, i)))]

\* ind_valid = ~np.isnan(loss_raw)
IndValidLoss(loss_raw) == [i \in 1 .. Len(loss_raw) |-> ~isnan(loss_raw[i])]

\* a[mask] for a boolean mask: IndexError unless the lengths agree
CanIndex(a, mask) == Len(mask) = Len(a)
RECURSIVE BoolIndex(_, _)
BoolIndex(a, mask) ==
    IF Len(a) = 0 THEN <<>>
    ELSE LET rest == BoolIndex(Tail(a), Tail(mask))
         IN  IF Head(mask) THEN <<Head(a)>> \o rest ELSE rest

\* ascending order of non-NaN integral samples (np.sort inside the reductions)
RECURSIVE Insert(_, _)
Insert(x, s) ==
    IF Len(s) = 0 THEN <<x>>
    ELSE IF x.num <= Head(s).num THEN <<x>> \o s
    ELSE <<Head(s)>> \o Insert(x, Tail(s))

RECURSIVE Sort(_)
Sort(a) == IF Len(a) = 0 THEN <<>> ELSE Insert(Head(a), Sort(Tail(a)))

RECURSIVE Sum(_)
Sum(a) == IF Len(a) = 0 THEN 0 ELSE Head(a).num + Sum(Tail(a))

RECURSIVE SumSq(_)
SumSq(a) == IF Len(a) = 0 THEN 0 ELSE Head(a).num * Head(a).num + SumSq(Tail(a))

\* np.mean, np.median, np.std of non-NaN samples; NaN (and a warning) when empty
mean(a) == IF Len(a) = 0 THEN NaN ELSE Q(Sum(a), Len(a))

median(a) ==
    LET n == Len(a)
        s == Sort(a)
    IN  IF n = 0 THEN NaN
        ELSE IF n % 2 = 1 THEN s[(n + 1) \div 2]
        ELSE Q(s[n \div 2].num + s[n \div 2 + 1].num, 2)

std(a) ==
    LET n == Len(a)
    IN  IF n = 0 THEN NaN
        ELSE Root(Q(n * SumSq(a) - Sum(a) * Sum(a), n * n))

\* percent_80(data) = percentile(data, 80), linear interpolation between the
\* order statistics: virtual index 0.8 * (n - 1).  Defined for n >= 1.
percent_80(a) ==
    LET n == Len(a)
        s == Sort(a)
        lo == (4 * (n - 1)) \div 5
        rem == (4 * (n - 1)) % 5
        hi == IF lo + 1 < n THEN lo + 1 ELSE lo
    IN  IF n = 0 THEN NaN
        ELSE Q(5 * s[lo + 1].num + rem * (s[hi + 1].num - s[lo + 1].num), 5)

\* ------------------------------------------------------------------ interface
\* what interface.get_value("EVNT:SYS0:1:LCLSBEAMRATE") does: raise, or a number
RateResponses ==
    {[raised |-> TRUE, val |-> 0]} \cup {[raised |-> FALSE, val |-> v] : v \in RateValues}

\* what the data fetch does.  get_values: raise, or a mapping that may lack
\* either key.  get_value(loss_pv): raise, a scalar (not subscriptable) or an
\* array.  Unused fields keep fixed values.
Resp(r, g, l, arr, gs, ls) ==
    [raises |-> r, hasGas |-> g, hasLoss |-> l, isArray |-> arr, gas |-> gs, loss |-> ls]

NoResponse == Resp(FALSE, FALSE, FALSE, FALSE, <<>>, <<>>)

ValuesResponses ==
    {Resp(TRUE, FALSE, FALSE, FALSE, <<>>, <<>>),
     Resp(FALSE, FALSE, TRUE, TRUE, <<>>, <<F(1)>>),
     Resp(FALSE, TRUE, FALSE, TRUE, <<F(1)>>, <<>>)}
    \cup {Resp(FALSE, TRUE, TRUE, TRUE, p[1], p[2]) :
              p \in {q \in Series \X Series : Len(q[1]) = Len(q[2])}}
    \cup {Resp(FALSE, TRUE, TRUE, TRUE, p[1], p[2]) :
              p \in {q \in ShapeSeries \X ShapeSeries : Len(q[1]) # Len(q[2])}}

ValueResponses ==
    {Resp(TRUE, FALSE, FALSE, FALSE, <<>>, <<>>),
     Resp(FALSE, FALSE, TRUE, FALSE, <<>>, <<>>)}
    \cup {Resp(FALSE, FALSE, TRUE, TRUE, <<>>, ls) : ls \in Series}

\* what interface.get_value("EM1K0:GMD:HPS:milliJoulesPerPulse") does
NoScalar == [read |-> FALSE, raised |-> FALSE, val |-> NaN]
ScalarResponses ==
    {[read |-> TRUE, raised |-> TRUE, val |-> NaN]}
    \cup {[read |-> TRUE, raised |-> FALSE, val |-> v] : v \in ScalarValues}

\* one call on the interface or on time: its name and the channels it names
Ev(op, pvs) == [op |-> op, pvs |-> pvs]

\* ------------------------------------------------------------------ results
Stats(p80, mn, med, sd, lp80) ==
    [gas_p80 |-> p80, gas_mean |-> mn, gas_median |-> med, gas_std |-> sd, loss_p80 |-> lp80]

NoStats == Stats(NaN, NaN, NaN, NaN, NaN)

NoOutcome == [kind |-> "none", exc |-> ""]
Return == [kind |-> "return", exc |-> ""]
Raise(e) == [kind |-> "raise", exc |-> e]

\* ------------------------------------------------------------------ steps of the code
\* except Exception as e: nap_time = 1
RateExceptNapPoints(n) == F(n)
RateExceptNap(n) == F(1)

\* try: rate = get_value(...); nap_time = points / (rate * 1.0)
\* (a raising query and a ZeroDivisionError both end in the except clause;
\* the rate is a Python number, for which division by zero raises)
NapTime(n, r) ==
    IF r.raised \/ r.val = 0 THEN RateExceptNap(n) ELSE Q(n, r.val)

\* time.sleep raises ValueError for a negative length
SleepRaises(t) == t.num < 0

\* results_dict = interface.get_values([PV_gas, loss_pv]): one batched call
FetchEventTwoCalls(gas_pv, l_pv) == <<Ev("get_value", <<gas_pv>>), Ev("get_value", <<l_pv>>)>>
FetchEvent(gas_pv, l_pv) == <<Ev("get_values", <<gas_pv, l_pv>>)>>

\* the try body of get_intensity_and_loss on a get_values response;
\* emptyRaises: whether this build's percentile raises on an empty array
\* (otherwise it returns NaN)
Windowed(resp, n, emptyRaises) ==
    LET intensity_raw == LastN(resp.gas, n)
        loss_raw == LastN(resp.loss, n)
        ind_valid == IndValid(intensity_raw, loss_raw)
        intensity_valid == BoolIndex(intensity_raw, ind_valid)
        loss_valid == BoolIndex(loss_raw, ind_valid)
        ok == /\ ~resp.raises
              /\ resp.hasGas /\ resp.hasLoss
              /\ CanBroadcast(Len(intensity_raw), Len(loss_raw))
              /\ CanIndex(intensity_raw, ind_valid)
              /\ CanIndex(loss_raw, ind_valid)
              /\ ~(emptyRaises /\ Len(intensity_valid) = 0)
    IN  [ok |-> ok,
         stats |-> IF ok
                   THEN Stats(percent_80(intensity_valid), mean(intensity_valid),
                              median(intensity_valid), std(intensity_valid),
                              percent_80(loss_valid))
                   ELSE NoStats]

\* except Exception: if hxr: raise BadgerEnvObsError
ExceptRaisesNever(is_hxr) == FALSE
ExceptRaises(is_hxr) == is_hxr

\* the record built from the scalar reading
FallbackStatsAllGas(g) == Stats(g, g, g, g, g)
FallbackStats(g) == Stats(g, g, g, F(0), F(0))

\* the try body of get_loss on a get_value response
LossWindowed(resp, n, emptyRaises) ==
    LET loss_raw == LastN(resp.loss, n)
        ind_valid == IndValidLoss(loss_raw)
        loss_valid == BoolIndex(loss_raw, ind_valid)
        ok == /\ ~resp.raises
              /\ resp.isArray
              /\ ~(emptyRaises /\ Len(loss_valid) = 0)
    IN  [ok |-> ok, p80 |-> IF ok THEN percent_80(loss_valid) ELSE NaN]

\* except Exception: raise BadgerEnvObsError
LossExceptReturnsZero == Return
LossExcept == Raise("BadgerEnvObsError")

\* ------------------------------------------------------------------ names
PREFIX == <<"p", "u", "l", "s", "e", "_", "i", "n", "t", "e", "n", "s", "i", "t", "y">>

ObservableNames ==
    {PREFIX \o <<"_", "x">>,
     PREFIX,
     SubSeq(PREFIX, 1, Len(PREFIX) - 1),
     <<"x">> \o PREFIX,
     <<"l", "o", "s", "s", "_", "y">>,
     <<>>}

\* name.startswith(prefix), character by character
RECURSIVE startswith(_, _)
startswith(name, prefix) ==
    IF Len(prefix) = 0 THEN TRUE
    ELSE IF Len(name) = 0 THEN FALSE
    ELSE Head(name) = Head(prefix) /\ startswith(Tail(name), Tail(prefix))

RECURSIVE AnyStartsWith(_)
AnyStartsWith(names) ==
    IF Len(names) = 0 THEN FALSE
    ELSE startswith(Head(names), PREFIX) \/ AnyStartsWith(Tail(names))

RECURSIVE AllStartWith(_)
AllStartWith(names) ==
    IF Len(names) = 0 THEN FALSE
    ELSE startswith(Head(names), PREFIX) /\ (Len(names) = 1 \/ AllStartWith(Tail(names)))

is_pulse_intensity_observed_all(names) == AllStartWith(names)
is_pulse_intensity_observed(names) == AnyStartsWith(names)

\* ------------------------------------------------------------------ state
VARIABLES
    fn,                \* the function called
    hxr, points, loss_pv, fel_channel,   \* its arguments
    observable_names,  \* the argument of is_pulse_intensity_observed
    pc,                \* position in the call
    rate,              \* what the beam-rate query did
    nap_time,          \* the wait computed from it
    response,          \* what the data fetch did
    scalar,            \* what the scalar fallback read did
    failed,            \* the try body of the data fetch raised
    trace,             \* the calls made on the interface and on time.sleep
    outcome,           \* how the call ended
    fel_stats,         \* the record get_intensity_and_loss returns
    loss_p80,          \* the value get_loss returns
    observed           \* the value is_pulse_intensity_observed returns

vars == <<fn, hxr, points, loss_pv, fel_channel, observable_names, pc, rate, nap_time,
          response, scalar, failed, trace, outcome, fel_stats, loss_p80, observed>>

args == <<fn, hxr, points, loss_pv, fel_channel, observable_names>>

NoRate == [raised |-> FALSE, val |-> 0]

Locals ==
    /\ rate = NoRate
    /\ nap_time = F(0)
    /\ response = NoResponse
    /\ scalar = NoScalar
    /\ failed = FALSE
    /\ trace = <<>>
    /\ outcome = NoOutcome
    /\ fel_stats = NoStats
    /\ loss_p80 = NaN
    /\ observed = FALSE

InitIntensityAndLoss ==
    /\ fn = "get_intensity_and_loss"
    /\ hxr \in BOOLEAN
    /\ points \in PointsSet
    /\ loss_pv \in LossPvs
    /\ fel_channel \in FelChannels
    /\ observable_names = <<>>
    /\ pc = "rate"
    /\ Locals

InitLoss ==
    /\ fn = "get_loss"
    /\ hxr = FALSE
    /\ points \in PointsSet
    /\ loss_pv \in LossPvs
    /\ fel_channel = ""
    /\ observable_names = <<>>
    /\ pc = "rate"
    /\ Locals

InitObserved ==
    /\ fn = "is_pulse_intensity_observed"
    /\ hxr = FALSE
    /\ points = 1
    /\ loss_pv = <<>>
    /\ fel_channel = ""
    /\ observable_names \in SeqsUpTo(ObservableNames, MaxNames)
    /\ pc = "call"
    /\ Locals

Init == InitIntensityAndLoss \/ InitLoss \/ InitObserved

\* ------------------------------------------------------------------ get_intensity_and_loss
RateQuery ==
    /\ fn = "get_intensity_and_loss" /\ pc = "rate"
    /\ \E r \in RateResponses :
        /\ rate' = r
        /\ nap_time' = NapTime(points, r)
    /\ trace' = Append(trace, Ev("get_value", <<BEAMRATE>>))
    /\ pc' = "sleep"
    /\ UNCHANGED <<args, response, scalar, failed, outcome, fel_stats, loss_p80, observed>>

Sleep ==
    /\ fn = "get_intensity_and_loss" /\ pc = "sleep"
    /\ trace' = Append(trace, Ev("sleep", <<>>))
    /\ IF SleepRaises(nap_time)
       THEN pc' = "done" /\ outcome' = Raise("ValueError")
       ELSE pc' = "fetch" /\ outcome' = outcome
    /\ UNCHANGED <<args, rate, nap_time, response, scalar, failed, fel_stats, loss_p80, observed>>

Fetch ==
    /\ fn = "get_intensity_and_loss" /\ pc = "fetch"
    /\ \E resp \in ValuesResponses, emptyRaises \in BOOLEAN :
        LET w == Windowed(resp, points, emptyRaises)
        IN  /\ response' = resp
            /\ trace' = trace \o FetchEvent(PV_gas(hxr, fel_channel), loss_pv)
            /\ IF w.ok
               THEN /\ fel_stats' = w.stats
                    /\ outcome' = Return
                    /\ pc' = "done"
                    /\ failed' = FALSE
               ELSE /\ fel_stats' = fel_stats
                    /\ failed' = TRUE
                    /\ IF ExceptRaises(hxr)
                       THEN pc' = "done" /\ outcome' = Raise("BadgerEnvObsError")
                       ELSE pc' = "fallback" /\ outcome' = outcome
    /\ UNCHANGED <<args, rate, nap_time, scalar, loss_p80, observed>>

Fallback ==
    /\ fn = "get_intensity_and_loss" /\ pc = "fallback"
    /\ \E g \in ScalarResponses :
        /\ scalar' = g
        /\ IF g.raised
           THEN outcome' = Raise("InterfaceError") /\ fel_stats' = fel_stats
           ELSE outcome' = Return /\ fel_stats' = FallbackStats(g.val)
    /\ trace' = Append(trace, Ev("get_value", <<SXR_SCALAR>>))
    /\ pc' = "done"
    /\ UNCHANGED <<args, rate, nap_time, response, failed, loss_p80, observed>>

\* ------------------------------------------------------------------ get_loss
LossRateQuery ==
    /\ fn = "get_loss" /\ pc = "rate"
    /\ \E r \in RateResponses :
        /\ rate' = r
        /\ nap_time' = NapTime(points, r)
    /\ trace' = Append(trace, Ev("get_value", <<BEAMRATE>>))
    /\ pc' = "sleep"
    /\ UNCHANGED <<args, response, scalar, failed, outcome, fel_stats, loss_p80, observed>>

LossSleep ==
    /\ fn = "get_loss" /\ pc = "sleep"
    /\ trace' = Append(trace, Ev("sleep", <<>>))
    /\ IF SleepRaises(nap_time)
       THEN pc' = "done" /\ outcome' = Raise("ValueError")
       ELSE pc' = "fetch" /\ outcome' = outcome
    /\ UNCHANGED <<args, rate, nap_time, response, scalar, failed, fel_stats, loss_p80, observed>>

LossFetch ==
    /\ fn = "get_loss" /\ pc = "fetch"
    /\ \E resp \in ValueResponses, emptyRaises \in BOOLEAN :
        LET w == LossWindowed(resp, points, emptyRaises)
        IN  /\ response' = resp
            /\ IF w.ok
               THEN loss_p80' = w.p80 /\ outcome' = Return /\ failed' = FALSE
               ELSE loss_p80' = loss_p80 /\ outcome' = LossExcept /\ failed' = TRUE
    /\ trace' = Append(trace, Ev("get_value", <<loss_pv>>))
    /\ pc' = "done"
    /\ UNCHANGED <<args, rate, nap_time, scalar, fel_stats, observed>>

\* ------------------------------------------------------------------ is_pulse_intensity_observed
Observe ==
    /\ fn = "is_pulse_intensity_observed" /\ pc = "call"
    /\ observed' = is_pulse_intensity_observed(observable_names)
    /\ outcome' = Return
    /\ pc' = "done"
    /\ UNCHANGED <<args, rate, nap_time, response, scalar, failed, trace, fel_stats, loss_p80>>

Next ==
    \/ RateQuery
    \/ Sleep
    \/ Fetch
    \/ Fallback
    \/ LossRateQuery
    \/ LossSleep
    \/ LossFetch
    \/ Observe

Spec == Init /\ [][Next]_vars

\* ------------------------------------------------------------------ vocabulary of the properties
IsGIL == fn = "get_intensity_and_loss"
IsGL == fn = "get_loss"
Done == pc = "done"

Min(a, b) == IF a < b THEN a ELSE b

\* the last n entries of a series, n >= 1
LastEntries(a, n) == SubSeq(a, Len(a) - Min(n, Len(a)) + 1, Len(a))

\* the entries of a at the indices of I, in order
RECURSIVE EntriesFrom(_, _, _)
EntriesFrom(a, I, i) ==
    IF i > Len(a) THEN <<>>
    ELSE (IF i \in I THEN <<a[i]>> ELSE <<>>) \o EntriesFrom(a, I, i + 1)

EntriesAt(a, I) == EntriesFrom(a, I, 1)

\* indices where neither series is NaN / where the one series is not NaN
BothValid(a, b) == {i \in 1 .. Len(a) : ~a[i].nan /\ ~b[i].nan}
OneValid(b) == {i \in 1 .. Len(b) : ~b[i].nan}

Ops == [i \in 1 .. Len(trace) |-> trace[i].op]

IsPrefix(s, t) == Len(s) <= Len(t) /\ s = SubSeq(t, 1, Len(s))

ScalarReadInTrace == \E i \in 1 .. Len(trace) : trace[i].pvs = <<SXR_SCALAR>>

ExampleIntensity == <<F(1), NaN, F(3), F(4)>>
ExampleLoss == <<F(1), F(2), NaN, F(4)>>

\* ------------------------------------------------------------------ properties

\* C1: on the successful windowed path with point_count >= 1, the five
\* statistics of get_intensity_and_loss are those of the entries of the last
\* point_count samples at the indices where neither intensity nor loss is
\* NaN, and the value of get_loss is the 80th percentile of the non-NaN
\* entries of the last point_count loss samples; the example series
\* [1, NaN, 3, 4] and [.1, .2, NaN, .4] (loss in tenths) keep indices {0, 3}.
C1_OnlyValidEntries ==
    /\ (IsGIL /\ Done /\ outcome = Return /\ ~failed /\ points >= 1) =>
          LET a == LastEntries(response.gas, points)
              b == LastEntries(response.loss, points)
              I == BothValid(a, b)
          IN  /\ Len(a) = Len(b)
              /\ fel_stats = Stats(percent_80(EntriesAt(a, I)), mean(EntriesAt(a, I)),
                                   median(EntriesAt(a, I)), std(EntriesAt(a, I)),
                                   percent_80(EntriesAt(b, I)))
    /\ (IsGL /\ Done /\ outcome = Return /\ points >= 1) =>
          LET b == LastEntries(response.loss, points)
          IN  loss_p80 = percent_80(EntriesAt(b, OneValid(b)))
    /\ LET w == Windowed(Resp(FALSE, TRUE, TRUE, TRUE, ExampleIntensity, ExampleLoss), 4, TRUE)
           iv == <<F(1), F(4)>>
       IN  /\ w.ok
           /\ w.stats = Stats(percent_80(iv), mean(iv), median(iv), std(iv), percent_80(iv))
           /\ w.stats.gas_mean = Q(5, 2) /\ w.stats.gas_p80 = Q(17, 5)

\* a returned record where a valid loss value sits beside a NaN intensity
C1_Witness ==
    /\ IsGIL /\ Done /\ outcome = Return /\ ~failed /\ points = 2
    /\ response.gas = <<NaN, F(2)>>
    /\ response.loss = <<F(1), F(2)>>
    /\ fel_stats.loss_p80 = F(2)

\* C2: with hxr true, a failed fetch/filter/reduce ends the call by raising
\* BadgerEnvObsError: nothing is returned and the scalar channel is not read;
\* a raising fetch and a missing channel are such failures.
C2_HxrRaises ==
    /\ (IsGIL /\ hxr /\ failed) =>
          /\ Done
          /\ outcome = Raise("BadgerEnvObsError")
          /\ fel_stats = NoStats
          /\ ~scalar.read /\ ~ScalarReadInTrace
    /\ (IsGIL /\ hxr /\ Len(trace) >= 3
          /\ (response.raises \/ ~response.hasGas \/ ~response.hasLoss)) => failed

C2_Witness == IsGIL /\ hxr /\ failed /\ ~response.raises /\ response.hasGas /\ response.hasLoss

C4_LossRaises ==
    /\ (IsGL /\ failed) =>
          /\ Done
          /\ outcome = Raise("BadgerEnvObsError")
          /\ loss_p80 = NaN
          /\ ~scalar.read /\ ~ScalarReadInTrace
          /\ Len(trace) = 3
    /\ (IsGL /\ Done /\ Len(trace) = 3 /\ (response.raises \/ ~response.isArray)) => failed

C4_Witness == IsGL /\ failed /\ response.isArray /\ Len(response.loss) > 0

\* C5: when the beam-rate query raises, or the division by the rate does, the
\* wait is exactly 1 whatever point_count is, the sleep does not raise, and
\* the call goes on to the sleep and to the data fetch.
C5_DefaultNap ==
    ((IsGIL \/ IsGL) /\ pc # "rate" /\ (rate.raised \/ rate.val = 0)) =>
        /\ nap_time = F(1)
        /\ outcome # Raise("ValueError")
        /\ pc = "sleep" \/ (Len(trace) >= 2 /\ trace[2].op = "sleep")
        /\ pc \in {"sleep", "fetch"}
             \/ (Len(trace) >= 3 /\ trace[3].op \in {"get_values", "get_value"}
                   /\ trace[3].pvs # <<BEAMRATE>>)

C5_Witness == IsGIL /\ rate.raised /\ points = 3 /\ Done /\ nap_time = F(1)

\* C6 as claimed: every finished call of get_intensity_and_loss or get_loss
\* has returned its full result or raised BadgerEnvObsError.
C6_NoOtherOutcome ==
    ((IsGIL \/ IsGL) /\ Done) => outcome \in {Return, Raise("BadgerEnvObsError")}

\* C7 as claimed: with point_count <= 0 the selection taken from the fetched
\* series is empty and the call never returns statistics computed from
\* fetched samples: once the series are fetched it is on the failure path,
\* or (where the percentile of an empty array is NaN instead of an error)
\* the selection is empty and what it returns is NaN.
C7_NonPositiveEmpty ==
    ((IsGIL \/ IsGL) /\ points <= 0 /\ Len(trace) >= 3
        /\ ~response.raises /\ response.isArray /\ response.hasLoss /\ (IsGL \/ response.hasGas)) =>
        \/ failed
        \/ /\ IsGIL
           /\ Len(LastN(response.gas, points)) = 0
           /\ Len(LastN(response.loss, points)) = 0
           /\ fel_stats = NoStats
        \/ /\ IsGL
           /\ Len(LastN(response.loss, points)) = 0
           /\ loss_p80 = NaN

\* C8: is_pulse_intensity_observed returns true exactly when some name of the
\* collection begins with pulse_intensity (false for the empty collection),
\* it always returns, and it touches neither the interface nor the clock.
C8_PrefixObserved ==
    (fn = "is_pulse_intensity_observed" /\ Done) =>
        /\ observed = (\E i \in 1 .. Len(observable_names) :
                          /\ Len(observable_names[i]) >= Len(PREFIX)
                          /\ SubSeq(observable_names[i], 1, Len(PREFIX)) = PREFIX)
        /\ outcome = Return
        /\ trace = <<>>
        /\ (observable_names = <<>> => ~observed)

C8_Witness ==
    /\ fn = "is_pulse_intensity_observed" /\ Done /\ observed
    /\ observable_names = << <<"l", "o", "s", "s", "_", "y">>, PREFIX \o <<"_", "x">> >>

\* C9: the calls of one invocation come in the order rate query, sleep, data
\* fetch, scalar read, each at most once; the scalar read only after a failed
\* windowed path with hxr false; get_intensity_and_loss fetches by one
\* get_values call and get_loss by one get_value call with no scalar read;
\* the sleep and the fetch happen once each also when the rate query failed.
C9_CallOrder ==
    /\ IsGIL =>
          /\ IsPrefix(Ops, <<"get_value", "sleep", "get_values", "get_value">>)
          /\ Len(trace) = 4 => (failed /\ ~hxr)
          /\ Len(trace) >= 3 => Len(trace[3].pvs) = 2
          /\ (Done /\ failed /\ ~hxr) => Len(trace) = 4
    /\ IsGL => IsPrefix(Ops, <<"get_value", "sleep", "get_value">>)
    /\ (IsGIL \/ IsGL) =>
          /\ pc = "rate" => Len(trace) = 0
          /\ pc = "sleep" => Len(trace) = 1
          /\ pc = "fetch" => Len(trace) = 2
          /\ pc = "fallback" => Len(trace) = 3
          /\ (Done /\ outcome # Raise("ValueError")) => Len(trace) >= 3
          /\ (Done /\ (rate.raised \/ rate.val = 0)) => Len(trace) >= 3

C9_Witness == IsGIL /\ Done /\ Len(trace) = 4 /\ rate.raised

\* C10: the batched fetch names exactly [intensity channel, loss_pv], the
\* intensity channel being GDET:FEE1:{fel_channel}:ENRCHSTCUHBR when hxr and
\* EM1K0:GMD:HPS:milliJoulesPerPulseHSTCUSBR otherwise; the rate is read from
\* EVNT:SYS0:1:LCLSBEAMRATE; EM1K0:GMD:HPS:milliJoulesPerPulse is read only
\* when hxr is false and the windowed path failed.
C10_Channels ==
    IsGIL =>
        /\ Len(trace) >= 1 =>
              trace[1] = Ev("get_value", << <<"EVNT:SYS0:1:LCLSBEAMRATE">> >>)
        /\ Len(trace) >= 3 =>
              trace[3].pvs =
                 << IF hxr THEN <<"GDET:FEE1:", fel_channel, ":ENRCHSTCUHBR">>
                           ELSE <<"EM1K0:GMD:HPS:milliJoulesPerPulseHSTCUSBR">>,
                    loss_pv >>
        /\ \A i \in 1 .. Len(trace) :
              trace[i].pvs = << <<"EM1K0:GMD:HPS:milliJoulesPerPulse">> >> =>
                  (i = 4 /\ ~hxr /\ failed)
        /\ (Done /\ ~hxr /\ failed) =>
              trace[4] = Ev("get_value", << <<"EM1K0:GMD:HPS:milliJoulesPerPulse">> >>)

C10_Witness == IsGIL /\ ~hxr /\ fel_channel = "361" /\ Done /\ Len(trace) = 4

====
